---- MODULE Spec2Model ----
(***************************************************************************)
(* Model of the Docker variant of the Hong Kong stock analysis pipeline    *)
(* (src/hk_stock_analysis_docker.py): load_and_process_portfolio, the      *)
(* price table handed over by load_stock_prices_from_google_sheets, and    *)
(* calculate_performance_from_entries, as main() runs them.                *)
(*                                                                         *)
(* Numbers.  The program computes in IEEE doubles; the model computes in   *)
(* exact rationals <<numerator, denominator>> (denominator > 0, lowest     *)
(* terms).  Rounding of doubles is outside the model.  A division by a     *)
(* zero divisor is not a number: the Python floats the loops work on raise *)
(* ZeroDivisionError, and the model records that as the run ending in      *)
(* pc = "error".                                                           *)
(***************************************************************************)
EXTENDS Integers, Sequences, FiniteSets, TLC

VARIABLES
    pc,                 \* where main() is: "start", "loaded", "calc", "done", "error"
    ledger,             \* rows of profolio.csv as read by pd.read_csv
    stock_transactions, \* final_stocks returned by load_and_process_portfolio (dict order)
    price_data,         \* the price table (shared Date index, one column per stock)
    idx,                \* number of items of stock_transactions the loop has consumed
    pct_changes,        \* the function-local pct_changes of calculate_performance_from_entries
    performance_data,   \* the dict being built: sequence of [code, record] in insertion order
    replay_log,         \* history: the positions the last loop iteration went through
    error,              \* name of the exception main() caught, "" when none
    tie_break,          \* how the build's sort_values('Date') leaves rows of equal date
    message,            \* the summary message main() builds for Telegram
    first_call,         \* history: what an earlier call on the same arguments produced
    df_raw,             \* history: the data rows of the fetched price sheet
    csv,                \* the cells of profolio.csv as text, before parse_date and clean_currency_value
    strategies,         \* the trajectories of the three script variants for one instrument
    telegram,           \* send_to_telegram_robust of the server variant: its frame
    export              \* create_plotly_image_with_embedded_strip: caller, export thread, file

vars == <<pc, ledger, stock_transactions, price_data, idx, pct_changes,
          performance_data, replay_log, error, tie_break, message, first_call,
          df_raw, csv, strategies, telegram, export>>

\* The state of the other entry points, which main()'s steps leave alone
aside == <<csv, strategies, telegram, export>>

----------------------------------------------------------------------------
(* Bounds of the input sets *)

\* Most rows of profolio.csv
MaxRows == 3

Days == {1, 2}

\* The instrument whose ledger rows and prices are enumerated in full.
HeldStock == "0388"
\* A second instrument of the price sheet, with one ledger row.
OtherStock == "9988"
\* An instrument the price sheet has no column for (not in stock_columns).
UnpricedStock == "0005"

\* A missing price cell (pd.to_numeric(..., errors='coerce') gives NaN); prices are >= 0
NaN == -1
\* pct_changes before its first assignment; a bound pct_changes is never empty
Unbound == <<>>

----------------------------------------------------------------------------
(* Exact rational arithmetic standing for the float arithmetic *)

Abs(n) == IF n < 0 THEN -n ELSE n

RECURSIVE GCD(_, _)
GCD(a, b) == IF b = 0 THEN a ELSE GCD(b, a % b)

Norm(n, d) ==
    LET g == GCD(Abs(n), Abs(d))
        s == IF d < 0 THEN -1 ELSE 1
    IN  <<(s * n) \div g, (s * d) \div g>>

R(i) == <<i, 1>>
RAdd(x, y) == Norm(x[1] * y[2] + y[1] * x[2], x[2] * y[2])
RSub(x, y) == Norm(x[1] * y[2] - y[1] * x[2], x[2] * y[2])
RMul(x, y) == Norm(x[1] * y[1], x[2] * y[2])
\* x / y for y # 0; the callers guard or raise on y = 0
RDiv(x, y) == Norm(x[1] * y[2], x[2] * y[1])
RLt(x, y) == x[1] * y[2] < y[1] * x[2]
RIsZero(x) == x[1] = 0

----------------------------------------------------------------------------
(* Transaction ledger loader: load_and_process_portfolio *)

\* What parse_date leaves for a date it cannot parse; days are >= 1
NaT == 0

\* One row of the CSV after df['Date'].apply(parse_date) and the two
\* clean_currency_value calls: Date is a day number or NaT, Units and Price
\* are the cleaned numbers.
Row(stock, cat, d, type, units, price) ==
    [Stock |-> stock, Category |-> cat, Date |-> d, Type |-> type,
     Units |-> units, Price |-> price]

\* len(stock_code) == 4 and stock_code.isdigit()
IsStockCode(code) == code \in {HeldStock, OtherStock, UnpricedStock}

\* Position of the entry of stock `code` in the insertion-ordered dict, 0 if absent
RECURSIVE IndexOf(_, _, _)
IndexOf(dict, code, i) ==
    IF i > Len(dict) THEN 0
    ELSE IF dict[i].code = code THEN i
    ELSE IndexOf(dict, code, i + 1)

\* Body of the loop over hk_stocks.iterrows() for one row
ProcessRow(dict, row) ==
    IF ~IsStockCode(row.Stock) THEN dict
    ELSE
      LET d0 == IF IndexOf(dict, row.Stock, 1) = 0
                THEN Append(dict, [code |-> row.Stock, all_transactions |-> <<>>,
                                   current_units |-> 0, total_cost |-> 0])
                ELSE dict
          i == IndexOf(d0, row.Stock, 1)
          transaction_data == [Date |-> row.Date, Type |-> row.Type,
                               Units |-> row.Units, Price |-> row.Price]
          e1 == [d0[i] EXCEPT !.all_transactions = Append(@, transaction_data)]
          e2 == IF row.Type = "Buy" /\ row.Units > 0
                THEN [e1 EXCEPT !.current_units = @ + row.Units,
                                !.total_cost = @ + row.Units * row.Price]
                ELSE e1   \* a Sell is only appended to sell_transactions
      IN  [d0 EXCEPT ![i] = e2]

RECURSIVE ProcessRows(_, _, _)
ProcessRows(dict, rows, i) ==
    IF i > Len(rows) THEN dict
    ELSE ProcessRows(ProcessRow(dict, rows[i]), rows, i + 1)

IsHKRow(row) == row.Category = "HK Stock"
HasDate(row) == row.Date # NaT
HasHolding(e) == e.current_units > 0

load_and_process_portfolio(rows) ==
    LET df == SelectSeq(rows, HasDate)
        hk_stocks == SelectSeq(df, IsHKRow)
        dict == ProcessRows(<<>>, hk_stocks, 1)
    IN  SelectSeq(dict, HasHolding)

----------------------------------------------------------------------------
(* Price table: load_stock_prices_from_google_sheets *)

\* prices.ffill(): a missing cell takes the last earlier non-missing one
RECURSIVE ffill(_, _, _)
ffill_Unfilled(cells, i, last) == cells

ffill(cells, i, last) ==
    IF i > Len(cells) THEN <<>>
    ELSE LET v == IF cells[i] = NaN THEN last ELSE cells[i]
         IN  <<v>> \o ffill(cells, i + 1, v)

\* Indices of the sheet rows that survive result_df.dropna(subset=['Date'])
RECURSIVE DatedRows(_, _)
DatedRows(sheet, i) ==
    IF i > Len(sheet) THEN <<>>
    ELSE (IF sheet[i].Date = NaT THEN <<>> ELSE <<i>>) \o DatedRows(sheet, i + 1)

\* sheet: the data rows df_raw.iloc[1:], each [Date, Close] with Close a
\* function from the stock columns of the sheet to a number or NaN.
load_stock_prices_from_google_sheets(sheet, columns) ==
    LET keep == DatedRows(sheet, 1)
        filled == [c \in columns |->
                     ffill([i \in 1..Len(sheet) |-> sheet[i].Close[c]], 1, NaN)]
    IN  [index |-> [k \in 1..Len(keep) |-> sheet[keep[k]].Date],
         columns |-> [c \in columns |->
                        [k \in 1..Len(keep) |-> filled[c][keep[k]]]]]

\* price_data[stock_code].dropna(): the (date, price) pairs of one column
RECURSIVE DropNa(_, _, _)
DropNa(index, cells, i) ==
    IF i > Len(index) THEN <<>>
    ELSE (IF cells[i] = NaN THEN <<>>
          ELSE <<[date |-> index[i], price |-> cells[i]]>>)
         \o DropNa(index, cells, i + 1)

StockPrices(table, code) == DropNa(table.index, table.columns[code], 1)

----------------------------------------------------------------------------
(* Cost-basis and return reconstruction: calculate_performance_from_entries *)

\* DataFrame.sort_values('Date') sorts with kind='quicksort', which promises
\* no order among rows of equal date.  The model lets the build leave them
\* in input order or in reversed input order; the same build sorts every
\* time the same way.
TieBreaks == {"input", "reversed"}

\* t goes after the row `last` of the rows sorted so far
GoesAfter(last, t) ==
    IF tie_break = "input" THEN last.Date <= t.Date ELSE last.Date < t.Date

RECURSIVE InsertByDate(_, _)
InsertByDate(sorted, t) ==
    IF sorted = <<>> THEN <<t>>
    ELSE IF GoesAfter(sorted[Len(sorted)], t) THEN Append(sorted, t)
    ELSE Append(InsertByDate(SubSeq(sorted, 1, Len(sorted) - 1), t),
                sorted[Len(sorted)])

RECURSIVE SortByDateFrom(_, _, _)
SortByDateFrom(sorted, txns, i) ==
    IF i > Len(txns) THEN sorted
    ELSE SortByDateFrom(InsertByDate(sorted, txns[i]), txns, i + 1)

SortByDate(txns) == SortByDateFrom(<<>>, txns, 1)

\* The position the replay loops carry: temp_units/temp_cost, running_units/running_cost
ZeroPosition == [units |-> 0, cost |-> R(0)]

\* The Sell computes cost_per_unit by integer (floor) division
ApplyTransaction_FloorDiv(pos, t) ==
    IF t.Type = "Buy"
    THEN [units |-> pos.units + t.Units,
          cost  |-> RAdd(pos.cost, R(t.Units * t.Price))]
    ELSE IF t.Type = "Sell" /\ pos.units > 0
    THEN [units |-> pos.units - t.Units,
          cost  |-> RSub(pos.cost,
                         R((pos.cost[1] \div (pos.cost[2] * pos.units)) * t.Units))]
    ELSE pos

\* The guard of lines 214 and 259 missing: a Sell also acts on an empty position
ApplyTransaction_Unguarded(pos, t) ==
    IF t.Type = "Buy"
    THEN [units |-> pos.units + t.Units,
          cost  |-> RAdd(pos.cost, R(t.Units * t.Price))]
    ELSE IF t.Type = "Sell"
    THEN [units |-> pos.units - t.Units,
          cost  |-> IF pos.units > 0
                    THEN RSub(pos.cost, RMul(RDiv(pos.cost, R(pos.units)), R(t.Units)))
                    ELSE pos.cost]
    ELSE pos

\* A Sell takes the proceeds of the sale, not the cost of the units, off the cost
ApplyTransaction_Proceeds(pos, t) ==
    IF t.Type = "Buy"
    THEN [units |-> pos.units + t.Units,
          cost  |-> RAdd(pos.cost, R(t.Units * t.Price))]
    ELSE IF t.Type = "Sell" /\ pos.units > 0
    THEN [units |-> pos.units - t.Units,
          cost  |-> RSub(pos.cost, R(t.Units * t.Price))]
    ELSE pos

\* One iteration of the loop over transactions.iterrows()
ApplyTransaction(pos, t) ==
    IF t.Type = "Buy"
    THEN [units |-> pos.units + t.Units,
          cost  |-> RAdd(pos.cost, R(t.Units * t.Price))]
    ELSE IF t.Type = "Sell" /\ pos.units > 0
    THEN LET cost_per_unit == RDiv(pos.cost, R(pos.units))
             sell_cost == RMul(cost_per_unit, R(t.Units))
         IN  [units |-> pos.units - t.Units,
              cost  |-> RSub(pos.cost, sell_cost)]
    ELSE pos

\* The positions after each transaction of a replay that starts at pos
RECURSIVE ReplayTrace(_, _, _)
ReplayTrace(pos, txns, i) ==
    IF i > Len(txns) THEN <<>>
    ELSE LET next == ApplyTransaction(pos, txns[i])
         IN  <<next>> \o ReplayTrace(next, txns, i + 1)

FinalPosition(trace) == IF trace = <<>> THEN ZeroPosition ELSE trace[Len(trace)]

\* all_transactions[pd.to_datetime(all_transactions['Date']) <= price_date].sort_values('Date')
TransactionsUpTo(all_transactions, price_date) ==
    SortByDate(SelectSeq(all_transactions, LAMBDA t : t.Date <= price_date))

\* ((market_price - current_avg_cost) / current_avg_cost) * 100
UnclampedReturn(market_price, current_avg_cost) ==
    RMul(RDiv(RSub(R(market_price), current_avg_cost), current_avg_cost), R(100))

Clamp_CapOnly(current_return) ==
    IF RLt(R(1000), current_return) THEN R(1000) ELSE current_return

\* Cap extreme returns
Clamp(current_return) ==
    IF RLt(R(1000), current_return) THEN R(1000)
    ELSE IF RLt(current_return, R(-100)) THEN R(-100)
    ELSE current_return

\* The loop over entry_prices.items().  Its result holds the
\* performance_series built, whether line 224 divided by zero, and the log
\* of every date visited: the transactions replayed, the positions after
\* each, and the index in performance_series of the point appended for the
\* date (0 when none).  The operators below are the stages of one iteration.
RECURSIVE PerformanceLoop(_, _, _, _, _)

\* Lines 223-233: the return of a date with units > 0
EmitReturn(entry_prices, all_transactions, k, series, log, visit, current_avg_cost) ==
    IF RIsZero(current_avg_cost)
    THEN [raised |-> TRUE, series |-> series, log |-> Append(log, visit)]
    ELSE PerformanceLoop(entry_prices, all_transactions, k + 1,
             Append(series,
                    [date |-> visit.date,
                     value |-> Clamp(UnclampedReturn(visit.price, current_avg_cost))]),
             Append(log, [visit EXCEPT !.point = Len(series) + 1]))

\* Lines 222-237: what is appended for the date, given the replayed position
AppendPoint(entry_prices, all_transactions, k, series, log, temp, visit) ==
    IF temp.units > 0
    THEN EmitReturn(entry_prices, all_transactions, k, series, log, visit,
                    RDiv(temp.cost, R(temp.units)))
    ELSE IF Len(series) > 0
    THEN PerformanceLoop(entry_prices, all_transactions, k + 1,
             Append(series, [date |-> visit.date, value |-> R(0)]),
             Append(log, [visit EXCEPT !.point = Len(series) + 1]))
    ELSE PerformanceLoop(entry_prices, all_transactions, k + 1, series,
             Append(log, visit))

\* Lines 204-219: the replay from zero of the transactions selected for the date
ReplayDate(entry_prices, all_transactions, k, series, log, upto, trace) ==
    AppendPoint(entry_prices, all_transactions, k, series, log, FinalPosition(trace),
                [date |-> entry_prices[k].date, price |-> entry_prices[k].price,
                 txns |-> upto, trace |-> trace, point |-> 0])

\* Lines 199-201: the transactions on or before the date
VisitDate(entry_prices, all_transactions, k, series, log, upto) ==
    ReplayDate(entry_prices, all_transactions, k, series, log, upto,
               ReplayTrace(ZeroPosition, upto, 1))

PerformanceLoop(entry_prices, all_transactions, k, series, log) ==
    IF k > Len(entry_prices) THEN [raised |-> FALSE, series |-> series, log |-> log]
    ELSE VisitDate(entry_prices, all_transactions, k, series, log,
                   TransactionsUpTo(all_transactions, entry_prices[k].date))

IsBuy(t) == t.Type = "Buy"

\* all_transactions[all_transactions['Type'] == 'Buy']
BuyTransactions(all_transactions) == SelectSeq(all_transactions, IsBuy)

\* buy_transactions.iloc[0]['Date']
FirstEntryDate(all_transactions) == BuyTransactions(all_transactions)[1].Date

EntryPrices_AfterEntry(stock_prices, first_entry_date) ==
    SelectSeq(stock_prices, LAMBDA p : p.date > first_entry_date)

\* stock_prices[stock_prices.index >= first_entry_date]
EntryPrices(stock_prices, first_entry_date) ==
    SelectSeq(stock_prices, LAMBDA p : p.date >= first_entry_date)

\* The check of len(entry_prices) > 0 is left out
HasEntryPrices_AnyPrices(stock_prices, all_transactions) ==
    /\ Len(stock_prices) > 0
    /\ Len(all_transactions) > 0
    /\ Len(BuyTransactions(all_transactions)) > 0

\* Lines 183-192, given the stock's price series
HasEntryPrices(stock_prices, all_transactions) ==
    /\ Len(stock_prices) > 0
    /\ Len(all_transactions) > 0
    /\ Len(BuyTransactions(all_transactions)) > 0
    /\ Len(EntryPrices(stock_prices, FirstEntryDate(all_transactions))) > 0

\* The guards of lines 179-192: does the loop body reach the replay for this stock?
Reconstructs(table, info) ==
    /\ info.code \in DOMAIN table.columns
    /\ HasEntryPrices(StockPrices(table, info.code), info.all_transactions)

ForceFirstZero_Skipped(series) == series

\* pct_changes.iloc[0] = 0.0
ForceFirstZero(series) == [series EXCEPT ![1].value = R(0)]

\* The final replay of lines 246-264
FinalReplay(all_transactions) == ReplayTrace(ZeroPosition, SortByDate(all_transactions), 1)

WeightedAvgCost(running) ==
    IF running.units > 0 THEN RDiv(running.cost, R(running.units)) ELSE R(0)

\* The current return is capped like the trajectory points
CurrentPctChange_Clamped(current_price, weighted_avg_cost) ==
    IF RLt(R(0), weighted_avg_cost)
    THEN Clamp(RMul(RDiv(RSub(R(current_price), weighted_avg_cost), weighted_avg_cost),
                    R(100)))
    ELSE R(0)

\* Lines 270-273
CurrentPctChange(current_price, weighted_avg_cost) ==
    IF RLt(R(0), weighted_avg_cost)
    THEN RMul(RDiv(RSub(R(current_price), weighted_avg_cost), weighted_avg_cost), R(100))
    ELSE R(0)

\* Lines 275-284: the record stored, or the exception raised
Outcome(code, first_entry_date, raised, pct_after, log, final_txns, final, running, weighted_avg_cost, current_price) ==
    [raised |-> IF raised THEN "ZeroDivisionError"
                ELSE IF pct_after = Unbound THEN "UnboundLocalError"
                ELSE "",
     pct_changes |-> pct_after,
     log |-> [code |-> code, dates |-> log,
              final_txns |-> IF raised THEN <<>> ELSE final_txns,
              final |-> IF raised THEN <<>> ELSE final],
     record |-> [entry_price |-> weighted_avg_cost,
                 current_price |-> current_price,
                 pct_change |-> CurrentPctChange(current_price, weighted_avg_cost),
                 units |-> running.units,
                 entry_date |-> first_entry_date,
                 historical_pct |-> pct_after,
                 unrealized_pnl |-> RMul(RSub(R(current_price), weighted_avg_cost),
                                         R(running.units))]]

\* Lines 266-269, given the final position
Summarise(info, stock_prices, loop, pct_after, final_txns, final, running) ==
    Outcome(info.code, FirstEntryDate(info.all_transactions), loop.raised, pct_after,
            loop.log, final_txns, final, running, WeightedAvgCost(running),
            stock_prices[Len(stock_prices)].price)

\* Lines 246-264, given the final replay
AfterFinalReplay(info, stock_prices, loop, pct_after, final) ==
    Summarise(info, stock_prices, loop, pct_after, SortByDate(info.all_transactions),
              final, FinalPosition(final))

\* Lines 239-264, given the result of the loop over the price dates
AfterLoop(info, stock_prices, pct_before, loop) ==
    AfterFinalReplay(info, stock_prices, loop,
                     IF Len(loop.series) > 0 THEN ForceFirstZero(loop.series)
                     ELSE pct_before,
                     FinalReplay(info.all_transactions))

\* Lines 193-284, given the stock's price series
ReconstructFrom(info, stock_prices, pct_before) ==
    AfterLoop(info, stock_prices, pct_before,
              PerformanceLoop(EntryPrices(stock_prices, FirstEntryDate(info.all_transactions)),
                              info.all_transactions, 1, <<>>, <<>>))

\* Outcome of one iteration of the loop over stock_transactions.items() that
\* reaches the replay, given the value pct_changes has when it starts.
Reconstruct(table, info, pct_before) ==
    ReconstructFrom(info, StockPrices(table, info.code), pct_before)

----------------------------------------------------------------------------
(* The inputs main() reads *)

SeqsUpTo(S, n) == UNION {[1..k -> S] : k \in 0..n}

\* Rows profolio.csv can hold: every Buy and Sell of HeldStock over Days,
\* one Buy of each other instrument, and rows the loader filters out.
LedgerRows ==
    {Row(HeldStock, "HK Stock", d, "Buy", q[1], q[2]) :
        d \in Days, q \in {<<1, 1>>, <<2, 0>>}}
    \cup {Row(HeldStock, "HK Stock", d, "Sell", q, 1) : d \in Days, q \in {1, 2}}
    \cup {Row(OtherStock, "HK Stock", 1, "Buy", 1, 1),
          Row(UnpricedStock, "HK Stock", 1, "Buy", 1, 1)}

Ledgers == SeqsUpTo(LedgerRows, MaxRows)

\* Data rows of the price sheet: HeldStock's close varies, OtherStock's is 2.
SheetRows ==
    {[Date |-> d, Close |-> (HeldStock :> c) @@ (OtherStock :> 2)] :
        d \in Days, c \in {1, 12}}

\* Up to one row per day of Days, in any order, dates may repeat.
Sheets == SeqsUpTo(SheetRows, Cardinality(Days))

SheetColumns == {HeldStock, OtherStock}

----------------------------------------------------------------------------
(* main() *)

\* No message built
NoMessage == [best |-> <<>>, worst |-> <<>>, lines |-> <<>>]

\* No earlier call
NoCall == [called |-> FALSE, performance_data |-> <<>>, error |-> ""]

\* The other entry points have not run
Idle ==
    /\ csv = <<>>
    /\ strategies = <<>>
    /\ telegram = <<>>
    /\ export = <<>>

Init ==
    /\ pc = "start"
    /\ ledger = <<>>
    /\ stock_transactions = <<>>
    /\ price_data = [index |-> <<>>, columns |-> <<>>]
    /\ idx = 0
    /\ pct_changes = Unbound
    /\ performance_data = <<>>
    /\ replay_log = [code |-> "", dates |-> <<>>, final_txns |-> <<>>, final |-> <<>>]
    /\ error = ""
    /\ tie_break \in TieBreaks
    /\ message = NoMessage
    /\ first_call = NoCall
    /\ df_raw = <<>>
    /\ Idle

\* stock_transactions = load_and_process_portfolio('profolio.csv');
\* main returns when the mapping is empty
LoadPortfolio ==
    /\ pc = "start"
    /\ \E rows \in Ledgers :
         /\ ledger' = rows
         /\ stock_transactions' = load_and_process_portfolio(rows)
         /\ pc' = IF load_and_process_portfolio(rows) = <<>> THEN "done" ELSE "loaded"
    /\ UNCHANGED <<price_data, idx, pct_changes, performance_data, replay_log, error,
                   tie_break,
                   message, first_call, df_raw, aside>>

\* price_data = load_stock_prices_from_google_sheets(GOOGLE_SHEET_ID)
LoadPricesFrom(fetched) ==
    /\ pc = "loaded"
    /\ \E rows \in fetched :
         /\ df_raw' = rows
         /\ price_data' = load_stock_prices_from_google_sheets(rows, SheetColumns)
    /\ pc' = "calc"
    /\ UNCHANGED <<ledger, stock_transactions, idx, pct_changes, performance_data,
                   replay_log, error, tie_break,
                   message, first_call, aside>>

LoadPrices == LoadPricesFrom(Sheets)

\* requests.get or raise_for_status fails: the loader raises, main catches
LoadPricesFails ==
    /\ pc = "loaded"
    /\ pc' = "error"
    /\ error' = "Exception"
    /\ UNCHANGED <<ledger, stock_transactions, price_data, idx, pct_changes,
                   performance_data, replay_log, tie_break,
                   message, first_call, df_raw, aside>>

\* A loop iteration whose guards (lines 179-192) skip the stock
SkipStock ==
    /\ idx' = idx + 1
    /\ UNCHANGED <<pc, ledger, stock_transactions, price_data, pct_changes,
                   performance_data, replay_log, error, tie_break,
                   message, first_call, df_raw, aside>>

\* Lines 239-243 and 275-284: the iteration ends by storing the record
StoreRecord(code, out) ==
    /\ out.raised = ""
    /\ pct_changes' = out.pct_changes
    /\ replay_log' = out.log
    /\ performance_data' = Append(performance_data, [code |-> code, record |-> out.record])

\* all_transactions.sort_values('Date', inplace=True): the caller's
\* transactions of the instrument are left sorted
ArgumentsLeft_SortedInPlace ==
    /\ stock_transactions' =
         [j \in DOMAIN stock_transactions |->
            IF j = idx + 1
            THEN [stock_transactions[j] EXCEPT !.all_transactions = SortByDate(@)]
            ELSE stock_transactions[j]]
    /\ UNCHANGED price_data

\* The iteration reads its arguments and works on copies (boolean-mask
\* selections, sort_values without inplace): the caller's mapping and price
\* table are as before
ArgumentsLeft == UNCHANGED <<stock_transactions, price_data>>

\* A loop iteration that stores performance_data[stock_code]
RecordStock(code, out) ==
    /\ StoreRecord(code, out)
    /\ idx' = idx + 1
    /\ ArgumentsLeft
    /\ UNCHANGED <<pc, ledger, error, tie_break, message, first_call, df_raw, aside>>

\* Line 224 or line 281 raises
Raise(out) ==
    /\ out.raised # ""
    /\ error' = out.raised
    /\ replay_log' = out.log

\* A loop iteration that raises: the exception leaves
\* calculate_performance_from_entries and main's except clause catches it
RaiseStock(out) ==
    /\ Raise(out)
    /\ pc' = "error"
    /\ ArgumentsLeft
    /\ UNCHANGED <<ledger, idx, pct_changes, performance_data, tie_break,
                   message, first_call, df_raw, aside>>

\* The end of an iteration that passed the guards, given what it computed
FinishStock(code, out) ==
    \/ RecordStock(code, out)
    \/ RaiseStock(out)

\* The body of the loop over stock_transactions.items() for one item
LoopBody(info) ==
    IF Reconstructs(price_data, info)
    THEN FinishStock(info.code, Reconstruct(price_data, info, pct_changes))
    ELSE SkipStock

\* One iteration of the loop over stock_transactions.items()
ProcessStock ==
    /\ pc = "calc"
    /\ idx < Len(stock_transactions)
    /\ LoopBody(stock_transactions[idx + 1])

\* return performance_data; main returns when the mapping is empty
CalcReturn ==
    /\ pc = "calc"
    /\ idx = Len(stock_transactions)
    /\ pc' = IF performance_data = <<>> THEN "done" ELSE "chart"
    /\ UNCHANGED <<ledger, stock_transactions, price_data, idx, pct_changes,
                   performance_data, replay_log, error, tie_break,
                   message, first_call, df_raw, aside>>

\* create_plotly_image_with_embedded_strip returns False: no message is built
CreateChartFails ==
    /\ pc = "chart"
    /\ pc' = "done"
    /\ UNCHANGED <<ledger, stock_transactions, price_data, idx, pct_changes,
                   performance_data, replay_log, error, tie_break,
                   message, first_call, df_raw, aside>>

RECURSIVE InsertByPct(_, _)

\* The items are sorted by pct_change in increasing order
InsertByPct_Ascending(sorted, item) ==
    IF sorted = <<>> THEN <<item>>
    ELSE IF ~RLt(item.record.pct_change, sorted[Len(sorted)].record.pct_change)
    THEN Append(sorted, item)
    ELSE Append(InsertByPct(SubSeq(sorted, 1, Len(sorted) - 1), item),
                sorted[Len(sorted)])

\* sorted(performance_data.items(), key=lambda x: x[1]['pct_change'], reverse=True):
\* decreasing pct_change, items of equal pct_change in their order in the dict
InsertByPct(sorted, item) ==
    IF sorted = <<>> THEN <<item>>
    ELSE IF ~RLt(sorted[Len(sorted)].record.pct_change, item.record.pct_change)
    THEN Append(sorted, item)
    ELSE Append(InsertByPct(SubSeq(sorted, 1, Len(sorted) - 1), item),
                sorted[Len(sorted)])

RECURSIVE SortedPerformance(_, _, _)
SortedPerformance(sorted, items, i) ==
    IF i > Len(items) THEN sorted
    ELSE SortedPerformance(InsertByPct(sorted, items[i]), items, i + 1)

\* f"{pct_change:+.1f}": the number of tenths nearest to x, a tie going to
\* the even one
FormatPct(x) ==
    LET q == (10 * x[1]) \div x[2]
        rem == (10 * x[1]) % x[2]
    IN  IF 2 * rem > x[2] THEN q + 1
        ELSE IF 2 * rem < x[2] THEN q
        ELSE IF q % 2 = 0 THEN q ELSE q + 1

\* One "stock pct%" entry of the message
MessageEntry(item) == [stock |-> item.code, text |-> FormatPct(item.record.pct_change)]

\* The message text, given sorted_performance (the timestamp line is left out)
MessageOf(sorted_performance) ==
    [best  |-> MessageEntry(sorted_performance[1]),
     worst |-> MessageEntry(sorted_performance[Len(sorted_performance)]),
     lines |-> [k \in DOMAIN sorted_performance |-> MessageEntry(sorted_performance[k])]]

\* The chart was created: main builds the summary message
BuildMessage ==
    /\ pc = "chart"
    /\ message' = MessageOf(SortedPerformance(<<>>, performance_data, 1))
    /\ pc' = "done"
    /\ UNCHANGED <<ledger, stock_transactions, price_data, idx, pct_changes,
                   performance_data, replay_log, error, tie_break, first_call, df_raw, aside>>

Next ==
    \/ LoadPortfolio
    \/ LoadPrices
    \/ LoadPricesFails
    \/ ProcessStock
    \/ CalcReturn
    \/ CreateChartFails
    \/ BuildMessage

Spec == Init /\ [][Next]_vars

----------------------------------------------------------------------------
(* calculate_performance_from_entries called twice on the same arguments *)

\* Ledgers of the two-call specification
LedgersTwice == SeqsUpTo(LedgerRows, MaxRows - 1)

\* The first call starts: the arguments are a mapping the loader returns
\* and a price table the price loader returns
InitTwice ==
    /\ pc = "calc"
    /\ ledger \in LedgersTwice
    /\ stock_transactions = load_and_process_portfolio(ledger)
    /\ df_raw \in Sheets
    /\ price_data = load_stock_prices_from_google_sheets(df_raw, SheetColumns)
    /\ idx = 0
    /\ pct_changes = Unbound
    /\ performance_data = <<>>
    /\ replay_log = [code |-> "", dates |-> <<>>, final_txns |-> <<>>, final |-> <<>>]
    /\ error = ""
    /\ tie_break \in TieBreaks
    /\ message = NoMessage
    /\ first_call = NoCall
    /\ Idle

\* The first call has returned or raised; the function is called again with
\* the same mapping and price table: performance_data = {} and the locals
\* of the new frame are unbound
CallAgain ==
    /\ pc \in {"chart", "done", "error"}
    /\ ~first_call.called
    /\ first_call' = [called |-> TRUE, performance_data |-> performance_data,
                      error |-> error]
    /\ pc' = "calc"
    /\ idx' = 0
    /\ pct_changes' = Unbound
    /\ performance_data' = <<>>
    /\ error' = ""
    /\ UNCHANGED <<ledger, stock_transactions, price_data, replay_log, tie_break,
                   message, df_raw, aside>>

NextTwice ==
    \/ ProcessStock
    \/ CalcReturn
    \/ CallAgain

SpecTwice == InitTwice /\ [][NextTwice]_vars

----------------------------------------------------------------------------
(* Properties *)

Records == {performance_data[i] : i \in 1..Len(performance_data)}

\* The loader's entry of an instrument of the mapping
InfoOf(code) == stock_transactions[IndexOf(stock_transactions, code, 1)]

\* replay_log is the log of the iteration that stored the last record
LogOfLastRecord ==
    /\ error = ""
    /\ Len(performance_data) > 0
    /\ performance_data[Len(performance_data)].code = replay_log.code

LastRecord == performance_data[Len(performance_data)].record

\* The return line 224 computes at a visited date with units > 0, before the cap
VisitUnclamped(v) ==
    LET temp == FinalPosition(v.trace)
    IN  UnclampedReturn(v.price, RDiv(temp.cost, R(temp.units)))

RLe(x, y) == ~RLt(y, x)

\* C1: the first value of the trajectory (historical_pct) of every stored
\* record is exactly 0.0.
C1_FirstPointZero ==
    \A r \in Records :
        /\ Len(r.record.historical_pct) >= 1
        /\ r.record.historical_pct[1].value = R(0)

\* A record is stored whose first computed return was not 0 before it was forced.
C1_Witness ==
    /\ LogOfLastRecord
    /\ \E k \in DOMAIN replay_log.dates :
         /\ replay_log.dates[k].point = 1
         /\ Clamp(VisitUnclamped(replay_log.dates[k])) # R(0)

\* C2: every value of every stored trajectory lies in [-100, 1000]; after the
\* first point, a date with units > 0 carries the computed return, emitted as
\* 1000 when above 1000 and as -100 when below -100, and a date with
\* units <= 0 carries 0.0.
C2_ClampBounds ==
    /\ \A r \in Records :
         \A j \in DOMAIN r.record.historical_pct :
            /\ RLe(R(-100), r.record.historical_pct[j].value)
            /\ RLe(r.record.historical_pct[j].value, R(1000))
    /\ LogOfLastRecord =>
         \A k \in DOMAIN replay_log.dates :
            LET v == replay_log.dates[k]
                temp == FinalPosition(v.trace)
                val == LastRecord.historical_pct[v.point].value
            IN  v.point > 1 =>
                  IF temp.units > 0
                  THEN LET raw == VisitUnclamped(v)
                       IN  /\ RLt(R(1000), raw) => val = R(1000)
                           /\ RLt(raw, R(-100)) => val = R(-100)
                           /\ (RLe(R(-100), raw) /\ RLe(raw, R(1000))) => val = raw
                  ELSE val = R(0)

\* A stored trajectory has a later point whose computed return exceeded 1000.
C2_Witness ==
    /\ LogOfLastRecord
    /\ \E k \in DOMAIN replay_log.dates :
         /\ replay_log.dates[k].point > 1
         /\ FinalPosition(replay_log.dates[k].trace).units > 0
         /\ RLt(R(1000), VisitUnclamped(replay_log.dates[k]))

\* Every replay the last iteration ran: the transactions and the positions after each
LoggedReplays ==
    {[txns |-> replay_log.dates[k].txns, trace |-> replay_log.dates[k].trace] :
        k \in DOMAIN replay_log.dates}
    \cup {[txns |-> replay_log.final_txns, trace |-> replay_log.final]}

PositionBefore(trace, i) == IF i = 1 THEN ZeroPosition ELSE trace[i - 1]

\* Step i of a replay is a Sell of q units on a position with units > q > 0
IsPartialSell(rp, i) ==
    /\ rp.txns[i].Type = "Sell"
    /\ rp.txns[i].Units > 0
    /\ PositionBefore(rp.trace, i).units > rp.txns[i].Units

ScenarioB ==
    <<[Date |-> 1, Type |-> "Buy", Units |-> 100, Price |-> 10],
      [Date |-> 3, Type |-> "Sell", Units |-> 50, Price |-> 12]>>

\* Buy 100@10 then Sell 50 ends with 50 units, cost basis 500, average cost 10
ScenarioBHolds ==
    /\ FinalPosition(FinalReplay(ScenarioB)) = [units |-> 50, cost |-> R(500)]
    /\ WeightedAvgCost(FinalPosition(FinalReplay(ScenarioB))) = R(10)

\* C3: a Sell of q units on a position with units > q > 0 removes exactly the
\* fraction q/units of total_cost and leaves total_cost/units unchanged; Buy
\* 100@10 then Sell 50 ends with 50 units, cost basis 500, average cost 10.
C3_ProportionalSell ==
    /\ \A rp \in LoggedReplays :
         \A i \in DOMAIN rp.trace :
            IsPartialSell(rp, i) =>
              LET before == PositionBefore(rp.trace, i)
                  after == rp.trace[i]
                  q == rp.txns[i].Units
              IN  /\ after.units = before.units - q
                  /\ RSub(before.cost, after.cost)
                       = RMul(before.cost, Norm(q, before.units))
                  /\ RDiv(after.cost, R(after.units))
                       = RDiv(before.cost, R(before.units))
    /\ idx = 0 => ScenarioBHolds

\* The final replay of a stored record sold part of a position of non-zero cost.
C3_Witness ==
    /\ LogOfLastRecord
    /\ \E i \in DOMAIN replay_log.final :
         /\ IsPartialSell([txns |-> replay_log.final_txns, trace |-> replay_log.final], i)
         /\ ~RIsZero(PositionBefore(replay_log.final, i).cost)

\* C4: after every step of every replay (per-date and final), also after a
\* Sell of more units than are held, units >= 0 and total_cost >= 0.
C4_NonNegativePosition ==
    \A rp \in LoggedReplays :
        \A i \in DOMAIN rp.trace :
            /\ rp.trace[i].units >= 0
            /\ RLe(R(0), rp.trace[i].cost)

\* C5: no division has a zero divisor: at every visited date with units > 0
\* the average cost that the return is divided by is non-zero, and the run
\* never ends in ZeroDivisionError.
C5_NoZeroDivisor ==
    /\ error # "ZeroDivisionError"
    /\ \A k \in DOMAIN replay_log.dates :
         LET temp == FinalPosition(replay_log.dates[k].trace)
         IN  temp.units > 0 => ~RIsZero(RDiv(temp.cost, R(temp.units)))

\* The incremental running replay: the position is carried from one visited
\* price date to the next, and each transaction is applied once, in date
\* order, at the first visited date that reaches its date.
RECURSIVE IncrementalReplay(_, _, _, _, _)
IncrementalReplay(all_transactions, visits, k, pos, reached) ==
    IF k > Len(visits) THEN <<>>
    ELSE LET d == visits[k].date
             due == SortByDate(SelectSeq(all_transactions,
                                         LAMBDA t : reached < t.Date /\ t.Date <= d))
             next == FinalPosition(<<pos>> \o ReplayTrace(pos, due, 1))
         IN  <<next>> \o IncrementalReplay(all_transactions, visits, k + 1, next,
                                           IF d > reached THEN d ELSE reached)

DistinctDates(txns) ==
    \A i, j \in DOMAIN txns : i # j => txns[i].Date # txns[j].Date

\* C6: when no two transactions of the instrument share a date, the per-date
\* full replay has at every visited price date the units and total_cost of
\* the incremental running replay.
C6_IncrementalAgrees ==
    (replay_log.code # "" /\ DistinctDates(InfoOf(replay_log.code).all_transactions)) =>
        LET inc == IncrementalReplay(InfoOf(replay_log.code).all_transactions,
                                     replay_log.dates, 1, ZeroPosition, 0)
        IN  \A k \in DOMAIN replay_log.dates :
                FinalPosition(replay_log.dates[k].trace) = inc[k]

\* The price dates of the last iteration were visited in ascending order
VisitsAscending ==
    \A k \in DOMAIN replay_log.dates :
        k > 1 => replay_log.dates[k - 1].date <= replay_log.dates[k].date

\* C6 restricted to price series in ascending date order
C6_IncrementalAgreesAscending == VisitsAscending => C6_IncrementalAgrees

\* The series is not empty and all its points are on or after the day
AllFrom(prices, day) ==
    /\ Len(prices) > 0
    /\ \A j \in DOMAIN prices : prices[j].date >= day

\* The instrument's ledger is one Buy of q > 0 units at price p > 0 and all
\* its price points are on or after the day of that Buy
IsSingleBuyCase(info) ==
    /\ Len(info.all_transactions) = 1
    /\ info.all_transactions[1].Type = "Buy"
    /\ info.all_transactions[1].Units > 0
    /\ info.all_transactions[1].Price > 0
    /\ info.code \in DOMAIN price_data.columns
    /\ AllFrom(StockPrices(price_data, info.code), info.all_transactions[1].Date)

\* (price - p)/p*100 limited to [-100, 1000]
ExpectedReturn(price, p) ==
    LET raw == Norm((price - p) * 100, p)
    IN  IF RLt(R(1000), raw) THEN R(1000)
        ELSE IF RLt(raw, R(-100)) THEN R(-100)
        ELSE raw

ScenarioATable == [index |-> <<1, 2, 3, 4>>, columns |-> (HeldStock :> <<10, 11, 9, 12>>)]

ScenarioAInfo ==
    [code |-> HeldStock,
     all_transactions |-> <<[Date |-> 1, Type |-> "Buy", Units |-> 100, Price |-> 10]>>,
     current_units |-> 100, total_cost |-> 1000]

\* Buy 100@10 on day 1 with prices 10,11,9,12 on days 1-4 gives the
\* trajectory 0,10,-10,20 and pct_change 20
ScenarioAHolds ==
    LET out == Reconstruct(ScenarioATable, ScenarioAInfo, Unbound)
    IN  /\ out.raised = ""
        /\ Len(out.record.historical_pct) = 4
        /\ [j \in 1..4 |-> out.record.historical_pct[j].value]
             = <<R(0), R(10), R(-10), R(20)>>
        /\ out.record.pct_change = R(20)

\* The instrument has a record with one point per price point, the first 0,
\* each later one the expected return on the Buy price p, and the
\* pct_change of the last price
HasSingleBuyRecord(code, p, prices) ==
    \E r \in Records :
        /\ r.code = code
        /\ Len(r.record.historical_pct) = Len(prices)
        /\ \A j \in DOMAIN prices :
             /\ r.record.historical_pct[j].date = prices[j].date
             /\ r.record.historical_pct[j].value =
                  IF j = 1 THEN R(0) ELSE ExpectedReturn(prices[j].price, p)
        /\ r.record.pct_change = Norm((prices[Len(prices)].price - p) * 100, p)

\* C7: an instrument whose ledger is a single Buy of q > 0 units at p > 0 on
\* day d, with price points on days >= d only, gets a record with one
\* trajectory point per price point, the first 0, each later one
\* (price - p)/p*100 limited to [-100, 1000], and pct_change equal to
\* (last price - p)/p*100; prices 10,11,9,12 with p = 10 give 0,10,-10,20
\* and pct_change 20.
C7_SingleBuyTrajectory ==
    /\ \A i \in 1..idx :
         IsSingleBuyCase(stock_transactions[i]) =>
           HasSingleBuyRecord(stock_transactions[i].code,
                              stock_transactions[i].all_transactions[1].Price,
                              StockPrices(price_data, stock_transactions[i].code))
    /\ pc = "start" => ScenarioAHolds

\* A single-Buy instrument has been given a record whose second point is not 0.
C7_Witness ==
    \E i \in 1..idx :
        /\ IsSingleBuyCase(stock_transactions[i])
        /\ \E r \in Records :
             /\ r.code = stock_transactions[i].code
             /\ Len(r.record.historical_pct) >= 2
             /\ r.record.historical_pct[2].value # R(0)

\* Earliest date among the Buy transactions
EarliestBuyDate(all_transactions) ==
    LET dates == {t.Date : t \in {all_transactions[i] : i \in DOMAIN all_transactions}
                                 \cap {t \in {all_transactions[i] : i \in DOMAIN all_transactions} : IsBuy(t)}}
    IN  CHOOSE d \in dates : \A e \in dates : d <= e

\* C8: the entry_date of every record is the date of the earliest Buy of the
\* instrument, whatever the order of the ledger rows.
C8_EntryDateIsEarliestBuy ==
    \A r \in Records :
        r.record.entry_date = EarliestBuyDate(InfoOf(r.code).all_transactions)

RECURSIVE SumUnits(_, _, _, _)
SumUnits(rows, code, type, i) ==
    IF i > Len(rows) THEN 0
    ELSE (IF rows[i].Stock = code /\ rows[i].Type = type THEN rows[i].Units ELSE 0)
         + SumUnits(rows, code, type, i + 1)

\* Sum of Buy quantities minus sum of Sell quantities over the whole ledger
NetPosition(code) == SumUnits(ledger, code, "Buy", 1) - SumUnits(ledger, code, "Sell", 1)

\* C9: the mapping load_and_process_portfolio returns holds no instrument
\* whose net position is zero or negative.
C9_NetPositionPositive ==
    \A i \in DOMAIN stock_transactions : NetPosition(stock_transactions[i].code) > 0

\* What the loop body computes for an instrument from its own transactions
\* and price column alone (no pct_changes left by an earlier iteration)
OwnOutcome(code) == Reconstruct(price_data, InfoOf(code), Unbound)

\* C10: every stored record is the record the instrument's own transactions
\* and price series give, whatever was processed before it.
C10_OwnInputsOnly ==
    \A r \in Records :
        /\ OwnOutcome(r.code).raised = ""
        /\ r.record = OwnOutcome(r.code).record

\* C11: calculate_performance_from_entries never raises: no run ends in an
\* exception leaving it, also when an instrument holds no units on any
\* price date on or after its entry date.
C11_NeverRaises == error \notin {"ZeroDivisionError", "UnboundLocalError"}

\* calculate_performance_from_entries was called and has returned
Returned == pc \in {"chart", "done"} /\ stock_transactions # <<>>

\* It has returned or raised
CalcEnded == Returned \/ error \in {"ZeroDivisionError", "UnboundLocalError"}

HasRecord(code) == \E r \in Records : r.code = code

\* Some iteration of the run skipped its instrument
SomeSkipped == \E i \in 1..idx : ~Reconstructs(price_data, stock_transactions[i])

\* Every instrument of the mapping that passes the guards has its record
AllEligibleRecorded ==
    \A j \in DOMAIN stock_transactions :
        Reconstructs(price_data, stock_transactions[j])
            => HasRecord(stock_transactions[j].code)

\* C12: when the call has ended and has skipped an instrument, every
\* instrument of the mapping that is in the price table, has a Buy and has a
\* price on or after its entry date has its record.
C12_SkipKeepsOthers == (CalcEnded /\ SomeSkipped) => AllEligibleRecorded

\* C12 for the calls that return
C12_SkipKeepsOthersOnReturn == (Returned /\ SomeSkipped) => AllEligibleRecorded

\* The ledger rows of an instrument that the loader reads as its Buys
BuyRows(code) ==
    SelectSeq(ledger, LAMBDA row : /\ HasDate(row) /\ IsHKRow(row)
                                   /\ row.Stock = code /\ row.Type = "Buy")

\* The earliest date among a non-empty sequence of rows
RECURSIVE EarliestDate(_, _)
EarliestDate(rows, i) ==
    IF i = Len(rows) THEN rows[i].Date
    ELSE LET rest == EarliestDate(rows, i + 1)
         IN  IF rows[i].Date < rest THEN rows[i].Date ELSE rest

\* The series has a point on or after the day
SomeFrom(prices, day) == \E j \in DOMAIN prices : prices[j].date >= day

\* The instrument has a Buy and a price point on or after its first Buy date
HasEntry(code) ==
    /\ BuyRows(code) # <<>>
    /\ code \in DOMAIN price_data.columns
    /\ SomeFrom(StockPrices(price_data, code), EarliestDate(BuyRows(code), 1))

\* C13: no record is stored for an instrument that has no Buy in the ledger
\* or no price point on or after its first Buy date.
C13_NoRecordWithoutEntry == \A r \in Records : HasEntry(r.code)

\* The call has returned a non-empty mapping, and the ledger holds an
\* instrument without a Buy, or without a price on or after its first Buy,
\* that has no record.
C13_Witness ==
    /\ Returned
    /\ performance_data # <<>>
    /\ \E i \in DOMAIN ledger :
         /\ ~HasEntry(ledger[i].Stock)
         /\ ~HasRecord(ledger[i].Stock)

\* In the last iteration, every date visited after a date that got a
\* trajectory point got one too
NoDateOmitted ==
    \A k \in DOMAIN replay_log.dates :
        (\E j \in 1..(k - 1) : replay_log.dates[j].point > 0)
            => replay_log.dates[k].point > 0

\* In the stored trajectory, a later date with units <= 0 carries 0.0
FlatWhenClosed ==
    LogOfLastRecord =>
        \A k \in DOMAIN replay_log.dates :
            (/\ replay_log.dates[k].point > 1
             /\ FinalPosition(replay_log.dates[k].trace).units <= 0)
                => LastRecord.historical_pct[replay_log.dates[k].point].value = R(0)

\* C14: once a price date has got a trajectory point, every later date of
\* the restricted price series gets one too, and that point is 0.0 where
\* the replayed units are <= 0.
C14_NoGapAfterFirstPoint == NoDateOmitted /\ FlatWhenClosed

\* C14 for the iterations that store their record
C14_NoGapInStoredTrajectory == LogOfLastRecord => C14_NoGapAfterFirstPoint

\* The prices of the latest date of a non-empty price series
LatestPrices(stock_prices) ==
    {stock_prices[j].price : j \in {j \in DOMAIN stock_prices :
        \A i \in DOMAIN stock_prices : stock_prices[i].date <= stock_prices[j].date}}

\* (current_price - weighted_avg_cost)/weighted_avg_cost*100, not capped
PlainReturn(current_price, weighted_avg_cost) ==
    IF RLt(R(0), weighted_avg_cost)
    THEN RSub(RMul(RDiv(R(current_price), weighted_avg_cost), R(100)), R(100))
    ELSE R(0)

\* C15: every record's current_price is the price at the latest date of the
\* instrument's whole price series, and its pct_change is
\* (current_price - weighted_avg_cost)/weighted_avg_cost*100 when
\* weighted_avg_cost > 0 and 0 otherwise, not capped.
C15_CurrentPriceIsLatest ==
    \A r \in Records :
        /\ r.record.current_price \in LatestPrices(StockPrices(price_data, r.code))
        /\ r.record.pct_change = PlainReturn(r.record.current_price, r.record.entry_price)

\* The price table's dates are strictly increasing
TableAscending ==
    \A k \in DOMAIN price_data.index :
        k > 1 => price_data.index[k - 1] < price_data.index[k]

\* C15 for price tables in strictly increasing date order
C15_CurrentPriceIsLatestAscending == TableAscending => C15_CurrentPriceIsLatest

\* A transaction whose cleaned quantity or unit price is zero or negative
IsInvalidAmount(t) == t.Units <= 0 \/ t.Price <= 0

\* C16: a row whose cleaned quantity or unit price is zero or negative
\* changes neither units nor total_cost in any replay, and the entry date of
\* a record is the date of a Buy with positive quantity and price.
C16_InvalidRowsExcluded ==
    /\ \A rp \in LoggedReplays :
         \A i \in DOMAIN rp.trace :
            IsInvalidAmount(rp.txns[i]) => rp.trace[i] = PositionBefore(rp.trace, i)
    /\ \A r \in Records :
         \E i \in DOMAIN InfoOf(r.code).all_transactions :
            LET t == InfoOf(r.code).all_transactions[i]
            IN  IsBuy(t) /\ ~IsInvalidAmount(t) /\ t.Date = r.record.entry_date

IsDateOrdered(txns) ==
    \A k \in DOMAIN txns : k > 1 => txns[k - 1].Date <= txns[k].Date

\* C17: the all_transactions of every instrument of the loader's output is
\* in non-decreasing date order.
C17_TransactionsChronological ==
    \A i \in DOMAIN stock_transactions :
        IsDateOrdered(stock_transactions[i].all_transactions)

\* The rows of txns in date order, rows of equal date in their order in txns
RECURSIVE StableByDate(_, _)
StableByDate(txns, dates) ==
    IF dates = {} THEN <<>>
    ELSE LET d == CHOOSE x \in dates : \A y \in dates : x <= y
         IN  SelectSeq(txns, LAMBDA t : t.Date = d) \o StableByDate(txns, dates \ {d})

InLedgerOrder(txns) == StableByDate(txns, {txns[i].Date : i \in DOMAIN txns})

PctOf(code) == (CHOOSE r \in Records : r.code = code).record.pct_change

MessageBuilt == message # NoMessage

\* C20: the message lists every instrument of the mapping exactly once, in
\* non-increasing order of pct_change; Best names an instrument of maximum
\* and Worst one of minimum pct_change, the same instrument when there is
\* only one.
C20_SummaryRanking ==
    MessageBuilt =>
        /\ Len(message.lines) = Len(performance_data)
        /\ \A r \in Records : \E k \in DOMAIN message.lines : message.lines[k].stock = r.code
        /\ \A k \in DOMAIN message.lines :
             /\ HasRecord(message.lines[k].stock)
             /\ k > 1 => RLe(PctOf(message.lines[k].stock), PctOf(message.lines[k - 1].stock))
        /\ \A r \in Records :
             /\ RLe(r.record.pct_change, PctOf(message.best.stock))
             /\ RLe(PctOf(message.worst.stock), r.record.pct_change)
        /\ Len(performance_data) = 1 => message.best = message.worst

\* A message is built from two instruments of different pct_change.
C20_Witness ==
    /\ MessageBuilt
    /\ Len(message.lines) = 2
    /\ PctOf(message.lines[1].stock) # PctOf(message.lines[2].stock)

----------------------------------------------------------------------------
(* The price series the reconstructor receives *)

\* The (date, price) series of one column has strictly increasing dates
StrictlyIncreasing(stock_prices) ==
    \A k \in DOMAIN stock_prices :
        k > 1 => stock_prices[k - 1].date < stock_prices[k].date

\* C21: the price series handed to the reconstructor for an instrument is
\* strictly increasing by date, without duplicate dates, whatever the order
\* and duplication of the rows of the fetched sheet; its last element is
\* the price of the latest date.
C21_PriceSeriesStrictlyIncreasing ==
    \A code \in DOMAIN price_data.columns :
        LET stock_prices == StockPrices(price_data, code)
        IN  /\ StrictlyIncreasing(stock_prices)
            /\ stock_prices # <<>> =>
                 LatestPrices(stock_prices) = {stock_prices[Len(stock_prices)].price}

----------------------------------------------------------------------------
(* A price sheet with missing cells and undated rows *)

\* Most data rows of a sheet with gaps
MaxSheetRows == 3

\* Data rows whose Date cell may fail to parse (NaT) and whose HeldStock
\* close may be missing (NaN)
GapRows ==
    {[Date |-> d, Close |-> (HeldStock :> c) @@ (OtherStock :> 2)] :
        d \in Days \cup {NaT}, c \in {1, 12, NaN}}

GapSheets == SeqsUpTo(GapRows, MaxSheetRows)

\* main() has loaded a one-row ledger that leaves a holding
InitPrices ==
    /\ pc = "loaded"
    /\ ledger \in {rows \in SeqsUpTo(LedgerRows, 1) :
                      load_and_process_portfolio(rows) # <<>>}
    /\ stock_transactions = load_and_process_portfolio(ledger)
    /\ price_data = [index |-> <<>>, columns |-> <<>>]
    /\ idx = 0
    /\ pct_changes = Unbound
    /\ performance_data = <<>>
    /\ replay_log = [code |-> "", dates |-> <<>>, final_txns |-> <<>>, final |-> <<>>]
    /\ error = ""
    /\ tie_break \in TieBreaks
    /\ message = NoMessage
    /\ first_call = NoCall
    /\ df_raw = <<>>
    /\ Idle

LoadGapPrices == LoadPricesFrom(GapSheets)

NextPrices ==
    \/ LoadGapPrices
    \/ ProcessStock
    \/ CalcReturn

SpecPrices == InitPrices /\ [][NextPrices]_vars

\* The sheet row the k-th row of the price table comes from
DatedRow(k) ==
    CHOOSE i \in DOMAIN df_raw :
        /\ df_raw[i].Date # NaT
        /\ Cardinality({j \in 1..i : df_raw[j].Date # NaT}) = k

\* The close of the nearest sheet row above row i that has one, NaN when none has
LastKnown(code, i) ==
    LET known == {j \in 1..(i - 1) : df_raw[j].Close[code] # NaN}
    IN  IF known = {} THEN NaN
        ELSE df_raw[CHOOSE j \in known : \A h \in known : h <= j].Close[code]

\* The price row i carries: its own close, or the last known one
Carried(code, i) ==
    IF df_raw[i].Close[code] = NaN THEN LastKnown(code, i) ELSE df_raw[i].Close[code]

\* The sheet rows that make the series of the instrument from its entry date on
SeriesRows(code, entry_date) ==
    SelectSeq([i \in DOMAIN df_raw |-> i],
              LAMBDA i : /\ df_raw[i].Date # NaT
                         /\ Carried(code, i) # NaN
                         /\ df_raw[i].Date >= entry_date)

\* A return brought into [-100, 1000]
Capped(raw) ==
    IF RLt(R(1000), raw) THEN R(1000) ELSE IF RLt(raw, R(-100)) THEN R(-100) ELSE raw

----------------------------------------------------------------------------
(* profolio.csv as text: parse_date and clean_currency_value *)

\* Most rows of a CSV given as text
MaxCsvRows == 2

\* A cell as pd.read_csv hands it over: NaN for an empty cell, a str, or a
\* number of a column read as numeric
Missing == [kind |-> "nan"]
Text(chars) == [kind |-> "str", text |-> chars]
Number(n) == [kind |-> "num", value |-> n]

Digits ==
    ("0" :> 0) @@ ("1" :> 1) @@ ("2" :> 2) @@ ("3" :> 3) @@ ("4" :> 4) @@
    ("5" :> 5) @@ ("6" :> 6) @@ ("7" :> 7) @@ ("8" :> 8) @@ ("9" :> 9)

IsDigits(text) == text # <<>> /\ \A i \in DOMAIN text : text[i] \in DOMAIN Digits

RECURSIVE NumeralValue(_)
NumeralValue(text) ==
    IF text = <<>> THEN 0
    ELSE NumeralValue(SubSeq(text, 1, Len(text) - 1)) * 10 + Digits[text[Len(text)]]

\* str.replace(old, ''): the occurrences of old, left to right, removed
RECURSIVE Remove(_, _)
Remove(text, old) ==
    IF Len(text) < Len(old) THEN text
    ELSE IF SubSeq(text, 1, Len(old)) = old
    THEN Remove(SubSeq(text, Len(old) + 1, Len(text)), old)
    ELSE <<text[1]>> \o Remove(Tail(text), old)

RECURSIVE lstrip(_)
lstrip(text) ==
    IF text # <<>> /\ text[1] = " " THEN lstrip(Tail(text)) ELSE text

RECURSIVE rstrip(_)
rstrip(text) ==
    IF text # <<>> /\ text[Len(text)] = " "
    THEN rstrip(SubSeq(text, 1, Len(text) - 1)) ELSE text

\* str.strip()
strip(text) == rstrip(lstrip(text))

\* float(cleaned) on the texts of the model, which hold no '.', 'e', '_'
\* and spell no inf or nan: surrounding blanks, an optional sign, digits;
\* any other text raises ValueError
float(text) ==
    LET t == strip(text)
        signed == t # <<>> /\ t[1] \in {"+", "-"}
        body == IF signed THEN Tail(t) ELSE t
    IN  IF ~IsDigits(body) THEN [raised |-> "ValueError", value |-> 0]
        ELSE [raised |-> "",
              value |-> IF signed /\ t[1] = "-" THEN 0 - NumeralValue(body)
                        ELSE NumeralValue(body)]

\* The except ValueError of line 43 missing: the error of float() propagates
clean_currency_value_Uncaught(value) ==
    IF value.kind = "nan" \/ value = Text(<<>>) THEN [raised |-> "", value |-> 0]
    ELSE IF value.kind = "str"
    THEN float(strip(Remove(Remove(Remove(value.text, <<"$">>), <<",">>), <<"H", "K">>)))
    ELSE [raised |-> "", value |-> value.value]

\* Lines 35-46.  The result says what the call raised ("" when it returned)
\* and the value returned.
clean_currency_value(value) ==
    IF value.kind = "nan" \/ value = Text(<<>>) THEN [raised |-> "", value |-> 0]
    ELSE IF value.kind = "str"
    THEN LET cleaned == strip(Remove(Remove(Remove(value.text, <<"$">>), <<",">>),
                                     <<"H", "K">>))
         IN  IF float(cleaned).raised = "ValueError" THEN [raised |-> "", value |-> 0]
             ELSE float(cleaned)
    ELSE [raised |-> "", value |-> value.value]

\* text.split(sep)
RECURSIVE Split(_, _, _)
Split(text, sep, field) ==
    IF text = <<>> THEN <<field>>
    ELSE IF text[1] = sep THEN <<field>> \o Split(Tail(text), sep, <<>>)
    ELSE Split(Tail(text), sep, Append(field, text[1]))

\* date_formats (line 53): the separator and the order of the fields
date_formats ==
    <<[sep |-> "-", Y |-> 1, m |-> 2, d |-> 3], [sep |-> "/", Y |-> 1, m |-> 2, d |-> 3],
      [sep |-> "/", Y |-> 3, m |-> 2, d |-> 1], [sep |-> "/", Y |-> 3, m |-> 1, d |-> 2]>>

\* The day number of a date; 2024-01-01 is day 1
Ordinal(y, m, d) == ((y - 2024) * 12 + (m - 1)) * 31 + d

\* pd.to_datetime(date_str, format=fmt): the text must match the format
\* exactly, with a four-digit year, a month 1..12 and a day 1..31
to_datetime(text, fmt) ==
    LET fields == Split(text, fmt.sep, <<>>)
        fits == /\ Len(fields) = 3
                /\ \A i \in 1..3 : IsDigits(fields[i])
                /\ Len(fields[fmt.Y]) = 4
                /\ Len(fields[fmt.m]) <= 2 /\ NumeralValue(fields[fmt.m]) \in 1..12
                /\ Len(fields[fmt.d]) <= 2 /\ NumeralValue(fields[fmt.d]) \in 1..31
    IN  IF fits
        THEN [raised |-> "",
              value |-> Ordinal(NumeralValue(fields[fmt.Y]), NumeralValue(fields[fmt.m]),
                                NumeralValue(fields[fmt.d]))]
        ELSE [raised |-> "ValueError", value |-> NaT]

\* pd.to_datetime(date_str) without a format, on the texts of the model:
\* eight digits are read as YYYYMMDD, any other text raises
to_datetime_inferred(text) ==
    IF Len(text) = 8 /\ IsDigits(text)
          /\ NumeralValue(SubSeq(text, 5, 6)) \in 1..12
          /\ NumeralValue(SubSeq(text, 7, 8)) \in 1..31
    THEN [raised |-> "",
          value |-> Ordinal(NumeralValue(SubSeq(text, 1, 4)),
                            NumeralValue(SubSeq(text, 5, 6)),
                            NumeralValue(SubSeq(text, 7, 8)))]
    ELSE [raised |-> "ParserError", value |-> NaT]

\* The loop of lines 55-59 from format k on, then lines 61-64; every
\* except is a bare one, so nothing is raised and a failure returns None
RECURSIVE TryFormats(_, _)
TryFormats(text, k) ==
    IF k > Len(date_formats)
    THEN [raised |-> "",
          value |-> IF to_datetime_inferred(text).raised = "" 
                    THEN to_datetime_inferred(text).value ELSE NaT]
    ELSE IF to_datetime(text, date_formats[k]).raised = ""
    THEN to_datetime(text, date_formats[k])
    ELSE TryFormats(text, k + 1)

\* Lines 48-64; None is NaT
parse_date(date_str) ==
    IF date_str.kind = "nan" THEN [raised |-> "", value |-> NaT]
    ELSE TryFormats(date_str.text, 1)

\* The cells of the model with what they stand for: the day of a date
\* cell (NaT when it is no date) and the amount of a quantity or price
\* cell (0 when it is no number)
DateCells ==
    {[cell |-> Missing, day |-> NaT],
     [cell |-> Text(<<"X", "X">>), day |-> NaT],
     [cell |-> Text(<<"2", "0", "2", "4", "-", "0", "1", "-", "0", "1">>), day |-> 1],
     [cell |-> Text(<<"2", "0", "2", "4", "/", "0", "1", "/", "0", "2">>), day |-> 2],
     [cell |-> Text(<<"0", "1", "/", "0", "1", "/", "2", "0", "2", "4">>), day |-> 1],
     [cell |-> Text(<<"0", "1", "/", "1", "3", "/", "2", "0", "2", "4">>), day |-> 13],
     [cell |-> Text(<<"2", "0", "2", "4", "0", "1", "0", "2">>), day |-> 2]}

UnitsCells ==
    {[cell |-> Number(1), amount |-> 1],
     [cell |-> Text(<<"H", "$", "K", "2">>), amount |-> 2],
     [cell |-> Text(<<"a", "b", "c">>), amount |-> 0]}

PriceCells ==
    {[cell |-> Text(<<" ", "$", "1", ",", "0", " ">>), amount |-> 10],
     [cell |-> Text(<<"-">>), amount |-> 0],
     [cell |-> Missing, amount |-> 0]}

CsvRows ==
    {[Stock |-> HeldStock, Category |-> "HK Stock", Date |-> d.cell, Type |-> "Buy",
      Units |-> u.cell, Price |-> p.cell] :
        d \in DateCells, u \in UnitsCells, p \in PriceCells}

CsvFiles == SeqsUpTo(CsvRows, MaxCsvRows)

\* What the try block of lines 70-128 does with one row of the file: the
\* row with its cells converted (lines 74, 88-89), and whether a conversion
\* raised; the amounts are converted only for a row the loop of lines
\* 83-116 reaches, a dated HK row with a stock code
ConvertRow(row) ==
    [raised |-> \/ parse_date(row.Date).raised # ""
                \/ /\ parse_date(row.Date).value # NaT
                   /\ row.Category = "HK Stock"
                   /\ IsStockCode(row.Stock)
                   /\ \/ clean_currency_value(row.Units).raised # ""
                      \/ clean_currency_value(row.Price).raised # "",
     row |-> Row(row.Stock, row.Category, parse_date(row.Date).value, row.Type,
                 clean_currency_value(row.Units).value,
                 clean_currency_value(row.Price).value)]

\* The conversions of the rows a file can hold
Conversions == [row \in CsvRows |-> ConvertRow(row)]

\* An exception leaves the try block
Raises(cells) == \E i \in DOMAIN cells : Conversions[cells[i]].raised

Converted(cells) == [i \in DOMAIN cells |-> Conversions[cells[i]].row]

\* load_and_process_portfolio('profolio.csv') from the text of the file;
\* the except of lines 130-132 returns {}
LoadCsv ==
    /\ pc = "start"
    /\ \E cells \in CsvFiles :
         /\ csv' = cells
         /\ ledger' = IF Raises(cells) THEN <<>> ELSE Converted(cells)
         /\ stock_transactions' =
              IF Raises(cells) THEN <<>>
              ELSE load_and_process_portfolio(Converted(cells))
    /\ pc' = IF stock_transactions' = <<>> THEN "done" ELSE "loaded"
    /\ UNCHANGED <<price_data, idx, pct_changes, performance_data, replay_log, error,
                   tie_break, message, first_call, df_raw, strategies, telegram,
                   export>>

SpecLoad == Init /\ [][LoadCsv]_vars

DayOf(cell) == (CHOOSE c \in DateCells : c.cell = cell).day

AmountOf(cell) == (CHOOSE c \in UnitsCells \cup PriceCells : c.cell = cell).amount

\* The transactions the file holds: its rows with a date, in file order
Transactions(cells) ==
    LET dated == SelectSeq(cells, LAMBDA row : DayOf(row.Date) # NaT)
    IN  [i \in DOMAIN dated |->
            [Date |-> DayOf(dated[i].Date), Type |-> dated[i].Type,
             Units |-> AmountOf(dated[i].Units), Price |-> AmountOf(dated[i].Price)]]

\* C23: a malformed cell never aborts the load.  A row whose date cannot be
\* parsed is dropped and every other row is loaded, in file order, with a
\* quantity or price that is no number taken as 0; the instrument is in the
\* mapping when one of its loaded Buys has a positive quantity.
C23_MalformedCellsTolerated ==
    pc # "start" =>
        LET held == \E i \in DOMAIN csv :
                       DayOf(csv[i].Date) # NaT /\ AmountOf(csv[i].Units) > 0
        IN  /\ Len(stock_transactions) = IF held THEN 1 ELSE 0
            /\ held => /\ stock_transactions[1].code = HeldStock
                       /\ stock_transactions[1].all_transactions = Transactions(csv)

\* The file has a row whose date text is no date, followed by a dated row
\* whose price text is no number, and the instrument is loaded.
C23_Witness ==
    /\ pc = "loaded"
    /\ \E i \in DOMAIN csv : \E j \in DOMAIN csv :
         /\ i < j
         /\ csv[i].Date.kind = "str" /\ DayOf(csv[i].Date) = NaT
         /\ DayOf(csv[j].Date) # NaT
         /\ csv[j].Price = Text(<<"-">>)
         /\ Len(stock_transactions[1].all_transactions) = 1

----------------------------------------------------------------------------
(* Sells on an empty position and Sells that close the position *)

\* Ledgers of the replay specification: rows of HeldStock only
ReplayLedgers == SeqsUpTo({row \in LedgerRows : row.Stock = HeldStock}, MaxRows)

\* calculate_performance_from_entries is called on the mapping of such a
\* ledger and a price table the price loader returns
InitReplay ==
    /\ pc = "calc"
    /\ ledger \in ReplayLedgers
    /\ stock_transactions = load_and_process_portfolio(ledger)
    /\ df_raw \in Sheets
    /\ price_data = load_stock_prices_from_google_sheets(df_raw, SheetColumns)
    /\ idx = 0
    /\ pct_changes = Unbound
    /\ performance_data = <<>>
    /\ replay_log = [code |-> "", dates |-> <<>>, final_txns |-> <<>>, final |-> <<>>]
    /\ error = ""
    /\ tie_break \in TieBreaks
    /\ message = NoMessage
    /\ first_call = NoCall
    /\ Idle

NextReplay ==
    \/ ProcessStock
    \/ CalcReturn

SpecReplay == InitReplay /\ [][NextReplay]_vars

\* Step i of a replay is a Sell met with units <= 0
IsSellOnEmpty(rp, i) ==
    /\ rp.txns[i].Type = "Sell"
    /\ PositionBefore(rp.trace, i).units <= 0

\* C24: a Sell processed while units <= 0 leaves total_cost and units as
\* they were, in every per-date replay and in the final replay.
C24_SellOnEmptyIsNoOp ==
    \A rp \in LoggedReplays : \A i \in DOMAIN rp.txns :
        IsSellOnEmpty(rp, i) => rp.trace[i] = PositionBefore(rp.trace, i)

\* A per-date replay and the final replay of a stored record both met a
\* Sell on an empty position and a Buy after it.
C24_Witness ==
    /\ LogOfLastRecord
    /\ \E k \in DOMAIN replay_log.dates :
         /\ Len(replay_log.dates[k].txns) > 1
         /\ IsSellOnEmpty([txns |-> replay_log.dates[k].txns,
                           trace |-> replay_log.dates[k].trace], 1)
    /\ Len(replay_log.final_txns) > 1
    /\ IsSellOnEmpty([txns |-> replay_log.final_txns, trace |-> replay_log.final], 1)

\* Step i of a replay is a Sell of exactly the units held
IsClosingSell(rp, i) ==
    /\ rp.txns[i].Type = "Sell"
    /\ PositionBefore(rp.trace, i).units > 0
    /\ rp.txns[i].Units = PositionBefore(rp.trace, i).units

\* Step j is the first Buy after step i, of a positive quantity
IsNextBuy(rp, i, j) ==
    /\ j > i
    /\ rp.txns[j].Type = "Buy"
    /\ rp.txns[j].Units > 0
    /\ \A h \in (i + 1)..(j - 1) : rp.txns[h].Type = "Sell"

----------------------------------------------------------------------------
(* The last trajectory point and the current return *)

LastValue(record) == record.historical_pct[Len(record.historical_pct)].value

\* The last record belongs to a position still held, with two points or more
HeldWithTwoPoints ==
    /\ LogOfLastRecord
    /\ FinalPosition(replay_log.final).units > 0
    /\ Len(LastRecord.historical_pct) >= 2

\* Buy 100@10 on day 1 and Buy 100@20 on day 3; closes 10 and 12 on days 1 and 2
ScenarioLateTable == [index |-> <<1, 2>>, columns |-> (HeldStock :> <<10, 12>>)]

ScenarioLateInfo ==
    [code |-> HeldStock,
     all_transactions |-> <<[Date |-> 1, Type |-> "Buy", Units |-> 100, Price |-> 10],
                            [Date |-> 3, Type |-> "Buy", Units |-> 100, Price |-> 20]>>,
     current_units |-> 200, total_cost |-> 3000]

ScenarioLateAgrees ==
    LET out == Reconstruct(ScenarioLateTable, ScenarioLateInfo, Unbound)
    IN  /\ out.raised = ""
        /\ LastValue(out.record) = Capped(out.record.pct_change)

\* C25: for an instrument whose final units are > 0 and whose trajectory
\* has at least two points, the last trajectory value is pct_change brought
\* into [-100, 1000], also when a transaction is dated after the last price
\* date (Buy 100@10 on day 1, Buy 100@20 on day 3, closes on days 1 and 2).
C25_LastPointIsCurrentReturn ==
    /\ HeldWithTwoPoints => LastValue(LastRecord) = Capped(LastRecord.pct_change)
    /\ pc = "start" => ScenarioLateAgrees

\* The same when the last row of the price series is the last point of the
\* trajectory, no transaction is dated after it and the final average cost
\* is positive.
C25_AgreesWhenNothingLater ==
    LET stock_prices == StockPrices(price_data, replay_log.code)
        last == replay_log.dates[Len(replay_log.dates)]
    IN  (/\ HeldWithTwoPoints
         /\ stock_prices[Len(stock_prices)].date >= LastRecord.entry_date
         /\ \A i \in DOMAIN replay_log.final_txns : replay_log.final_txns[i].Date <= last.date
         /\ RLt(R(0), WeightedAvgCost(FinalPosition(replay_log.final))))
        => LastValue(LastRecord) = Capped(LastRecord.pct_change)

----------------------------------------------------------------------------
(* The static-average strategy of the server and bulletproof variants,     *)
(* next to the per-date replay of the Docker variant                       *)

\* Days of the ledgers and sheets the three variants are compared on
StrategyDays == 1..3

\* Lines 102-109 of the server loader, 83-90 of the bulletproof loader: a
\* Buy of units > 0 adds its units and its cost, a Sell of units > 0 only
\* takes its units off
StaticRow(e, row) ==
    IF row.Type = "Buy" /\ row.Units > 0
    THEN [buy_dates |-> Append(e.buy_dates, row.Date),
          units |-> e.units + row.Units,
          total_cost |-> e.total_cost + row.Units * row.Price]
    ELSE IF row.Type = "Sell" /\ row.Units > 0
    THEN [e EXCEPT !.units = @ - row.Units]
    ELSE e

RECURSIVE StaticRows(_, _, _)
StaticRows(e, rows, i) ==
    IF i > Len(rows) THEN e ELSE StaticRows(StaticRow(e, rows[i]), rows, i + 1)

\* The loader's entry of one instrument: dated HK rows of that stock code
StaticEntry(rows, code) ==
    StaticRows([buy_dates |-> <<>>, units |-> 0, total_cost |-> 0],
               SelectSeq(rows, LAMBDA row : /\ HasDate(row)
                                            /\ IsHKRow(row)
                                            /\ row.Stock = code),
               1)

\* avg_cost = total_cost / units; a holding of the model has a positive cost
StaticAverage(e) == RDiv(R(e.total_cost), R(e.units))

StaticTrajectory_FirstKept(entry_prices, avg_cost) ==
    [k \in DOMAIN entry_prices |->
        [date |-> entry_prices[k].date,
         value |-> UnclampedReturn(entry_prices[k].price, avg_cost)]]

\* pct_changes = (entry_prices - avg_cost) / avg_cost * 100;
\* pct_changes.iloc[0] = 0.0
StaticTrajectory(entry_prices, avg_cost) ==
    [k \in DOMAIN entry_prices |->
        [date |-> entry_prices[k].date,
         value |-> IF k = 1 THEN R(0)
                   ELSE UnclampedReturn(entry_prices[k].price, avg_cost)]]

\* What a variant leaves for the instrument: no record, an exception, or a trajectory
NoRecord == [kind |-> "none", trajectory |-> <<>>]
Raised == [kind |-> "raised", trajectory |-> <<>>]
Recorded(trajectory) == [kind |-> "record", trajectory |-> trajectory]

\* The trajectory from the entry date on, when there is a price on or after it
StaticFrom(e, stock_prices, entry_date) ==
    IF Len(EntryPrices(stock_prices, entry_date)) = 0 THEN NoRecord
    ELSE Recorded(StaticTrajectory(EntryPrices(stock_prices, entry_date), StaticAverage(e)))

\* buy_transactions.sort_values('Date').iloc[0]['Date']
FirstSortedDate(dates) == CHOOSE d \in {dates[i] : i \in DOMAIN dates} :
                              \A i \in DOMAIN dates : d <= dates[i]

\* hk_stock_analysis_server.py, lines 301-332, for one instrument
server_main(rows, table, code) ==
    IF StaticEntry(rows, code).units <= 0 \/ code \notin DOMAIN table.columns
    THEN NoRecord
    ELSE IF Len(StockPrices(table, code)) = 0 THEN NoRecord
    ELSE StaticFrom(StaticEntry(rows, code), StockPrices(table, code),
                    FirstSortedDate(StaticEntry(rows, code).buy_dates))

\* load_google_sheets_simple: the series of a stock keeps the rows with a
\* price, dated or not; a row without a date fails the comparison with the
\* entry date
SimplePrices(table_rows, code) ==
    LET filled == ffill([i \in 1..Len(table_rows) |-> table_rows[i].Close[code]], 1, NaN)
        kept == SelectSeq([i \in 1..Len(table_rows) |-> i],
                          LAMBDA i : filled[i] # NaN /\ table_rows[i].Date # NaT)
    IN  [k \in 1..Len(kept) |-> [date |-> table_rows[kept[k]].Date, price |-> filled[kept[k]]]]

\* hk_stock_bulletproof.py, lines 231-255, for one instrument; entry_date
\* is the date of the first Buy of the file
bulletproof_main(rows, table_rows, code) ==
    IF StaticEntry(rows, code).units <= 0 \/ code \notin SheetColumns
    THEN NoRecord
    ELSE StaticFrom(StaticEntry(rows, code), SimplePrices(table_rows, code),
                    StaticEntry(rows, code).buy_dates[1])

\* The Docker variant on the same file and sheet, for one instrument
DockerOutcome(out) ==
    IF out.raised # "" THEN Raised ELSE Recorded(out.record.historical_pct)

docker_main(mapping, table, code) ==
    IF IndexOf(mapping, code, 1) = 0 THEN NoRecord
    ELSE IF ~Reconstructs(table, mapping[IndexOf(mapping, code, 1)]) THEN NoRecord
    ELSE DockerOutcome(Reconstruct(table, mapping[IndexOf(mapping, code, 1)], Unbound))

\* Rows of HeldStock at positive prices, and sheets of its closes
StrategyRows ==
    {Row(HeldStock, "HK Stock", d, "Buy", 1, 1) : d \in StrategyDays}
    \cup {Row(HeldStock, "HK Stock", d, "Buy", 1, 3) : d \in StrategyDays \ {3}}
    \cup {Row(HeldStock, "HK Stock", d, "Sell", 1, 1) : d \in StrategyDays \ {1}}

StrategyLedgers == SeqsUpTo(StrategyRows, MaxRows - 1)

StrategySheets ==
    SeqsUpTo({[Date |-> d, Close |-> (HeldStock :> (IF d = 2 THEN 3 ELSE 1))
                                     @@ (OtherStock :> 2)] : d \in StrategyDays},
             MaxSheetRows)

\* The three scripts run on the same profolio.csv and the same sheet
RunVariants ==
    /\ pc = "start"
    /\ \E rows \in StrategyLedgers : \E fetched \in StrategySheets :
         /\ ledger' = rows
         /\ df_raw' = fetched
         /\ stock_transactions' = load_and_process_portfolio(rows)
         /\ price_data' = load_stock_prices_from_google_sheets(fetched, SheetColumns)
         /\ strategies' =
              [docker |-> docker_main(stock_transactions', price_data', HeldStock),
               server |-> server_main(rows, price_data', HeldStock),
               bulletproof |-> bulletproof_main(rows, fetched, HeldStock)]
    /\ pc' = "done"
    /\ UNCHANGED <<idx, pct_changes, performance_data, replay_log, error, tie_break,
                   message, first_call, csv, telegram, export>>

SpecStrategies == Init /\ [][RunVariants]_vars

Compared == strategies # <<>>

NoSell == \A i \in DOMAIN ledger : ledger[i].Type # "Sell"

\* All Buys of the ledger carry one date
OneBuyDate == \A i \in DOMAIN ledger : \A j \in DOMAIN ledger : ledger[i].Date = ledger[j].Date

InRange(trajectory) ==
    \A k \in DOMAIN trajectory :
        RLe(R(-100), trajectory[k].value) /\ RLe(trajectory[k].value, R(1000))

\* The three variants leave the same for the instrument, as far as the
\* static returns stay inside [-100, 1000]
VariantsAgree ==
    /\ strategies.server = strategies.bulletproof
    /\ InRange(strategies.server.trajectory) => strategies.docker = strategies.server

\* C26: for a ledger with no Sell the static-average strategy (server,
\* bulletproof) and the per-date replay (Docker) produce the same
\* trajectory while returns stay inside [-100, 1000]; they differ only when
\* a Sell occurs.
C26_NoSellSameTrajectory == (Compared /\ NoSell) => VariantsAgree

\* C26 as amended: the same for a ledger with no Sell whose Buys all carry
\* one date.
C26_OneBuyDateSameTrajectory == (Compared /\ NoSell /\ OneBuyDate) => VariantsAgree

\* Two Buys of one date at different prices, no Sell: the three variants
\* leave the same trajectory, with a later point that is not 0.
C26_Witness ==
    /\ Compared /\ NoSell /\ OneBuyDate
    /\ Len(ledger) = 2
    /\ ledger[1].Price # ledger[2].Price
    /\ strategies.docker.kind = "record"
    /\ strategies.docker = strategies.server
    /\ strategies.docker = strategies.bulletproof
    /\ \E k \in DOMAIN strategies.docker.trajectory :
         k > 1 /\ strategies.docker.trajectory[k].value # R(0)

----------------------------------------------------------------------------
(* send_to_telegram_robust of the server variant *)

max_retries == 3

\* The call enters the loop: attempt = 0, nothing tried yet.  log lists the
\* outcome of each attempt made: "ok" or the exception it raised.
InitSend ==
    /\ pc = "start"
    /\ ledger = <<>>
    /\ stock_transactions = <<>>
    /\ price_data = [index |-> <<>>, columns |-> <<>>]
    /\ idx = 0
    /\ pct_changes = Unbound
    /\ performance_data = <<>>
    /\ replay_log = [code |-> "", dates |-> <<>>, final_txns |-> <<>>, final |-> <<>>]
    /\ error = ""
    /\ tie_break \in TieBreaks
    /\ message = NoMessage
    /\ first_call = NoCall
    /\ df_raw = <<>>
    /\ csv = <<>>
    /\ strategies = <<>>
    /\ export = <<>>
    /\ telegram = [at |-> "open", attempt |-> 0, status_code |-> 0, log |-> <<>>,
                   returned |-> "none"]

SendFrame ==
    UNCHANGED <<pc, ledger, stock_transactions, price_data, idx, pct_changes,
                performance_data, replay_log, error, tie_break, message, first_call,
                df_raw, csv, strategies, export>>

\* Only the exceptions of requests are caught
Catches_RequestsOnly(e) == e # "FileNotFoundError"

\* except Exception (line 271): every exception the try block raises is caught
Catches(e) == e \in {"FileNotFoundError", "ConnectionError", "Timeout", "HTTPError"}

\* Lines 271-280: the handler; after the last attempt it returns False
Handle(e) ==
    IF telegram.attempt < max_retries - 1
    THEN telegram' = [telegram EXCEPT !.at = "sleep", !.log = Append(@, e)]
    ELSE telegram' = [telegram EXCEPT !.at = "returned", !.log = Append(@, e),
                                      !.returned = "False"]

\* A statement of the try block raises e
Fail(e) ==
    IF Catches(e) THEN Handle(e)
    ELSE telegram' = [telegram EXCEPT !.at = "raised", !.log = Append(@, e),
                                      !.returned = e]

\* with open(image_path, 'rb') as photo (line 258)
OpenPhoto ==
    /\ telegram.at = "open"
    /\ \/ telegram' = [telegram EXCEPT !.at = "post"]
       \/ Fail("FileNotFoundError")
    /\ SendFrame

\* requests.post(url, files=files, data=data, timeout=30) (line 265)
RequestsPost ==
    /\ telegram.at = "post"
    /\ \/ \E code \in {200, 400} :
            telegram' = [telegram EXCEPT !.at = "status", !.status_code = code]
       \/ \E e \in {"ConnectionError", "Timeout"} : Fail(e)
    /\ SendFrame

\* response.raise_for_status(); return True (lines 266-269)
RaiseForStatus ==
    /\ telegram.at = "status"
    /\ IF telegram.status_code < 400
       THEN telegram' = [telegram EXCEPT !.at = "returned", !.log = Append(@, "ok"),
                                         !.returned = "True"]
       ELSE Fail("HTTPError")
    /\ SendFrame

\* time.sleep(5), then the next attempt of range(max_retries)
SleepAndRetry ==
    /\ telegram.at = "sleep"
    /\ telegram' = [telegram EXCEPT !.at = "open", !.attempt = @ + 1]
    /\ SendFrame

NextSend ==
    \/ OpenPhoto
    \/ RequestsPost
    \/ RaiseForStatus
    \/ SleepAndRetry

\* open, post (timeout=30), raise_for_status and sleep(5) each end: a call
\* in progress takes its next step
SpecSend == InitSend /\ [][NextSend]_vars /\ WF_vars(NextSend)

Failures(log) == {k \in DOMAIN log : log[k] # "ok"}

\* At most max_retries attempts, success only as the last one, True after
\* a success and False after max_retries failures, nothing else returned
SendOutcome ==
    /\ Len(telegram.log) <= max_retries
    /\ \A k \in DOMAIN telegram.log : telegram.log[k] = "ok" => k = Len(telegram.log)
    /\ telegram.returned \in {"none", "True", "False"}
    /\ telegram.returned = "True" <=>
         (telegram.log # <<>> /\ telegram.log[Len(telegram.log)] = "ok")
    /\ telegram.returned = "False" <=> Cardinality(Failures(telegram.log)) = max_retries
    /\ telegram.returned # "none" <=> telegram.at = "returned"

\* C28: send_to_telegram_robust makes at most 3 attempts, returns True at
\* the first successful one without a further attempt, returns False only
\* after 3 failures in a row, never raises, and always ends with True or
\* False.
C28_SendEndsTrueOrFalse ==
    /\ []SendOutcome
    /\ <>(telegram.returned \in {"True", "False"})

\* The call has returned True at its third attempt, after two failures.
C28_Witness ==
    /\ telegram.returned = "True"
    /\ Len(telegram.log) = max_retries

----------------------------------------------------------------------------
(* create_plotly_image_with_embedded_strip and the end of main() *)

\* Ledgers of the export specification
ExportLedgers == SeqsUpTo(LedgerRows, 1)

\* result = {'success': False, 'error': None}; no thread yet, no file written,
\* nothing returned, nothing sent, the interpreter running.  expired
\* records that join(timeout=30) returned with the thread running, alive
\* what thread.is_alive() answered.
NoExport ==
    [thread |-> "unstarted", success |-> FALSE, error |-> "", png |-> "absent",
     expired |-> FALSE, alive |-> FALSE, returned |-> "none", sent |-> FALSE,
     exited |-> FALSE]

\* main() has loaded the portfolio and the prices
InitExport ==
    /\ pc = "calc"
    /\ ledger \in ExportLedgers
    /\ stock_transactions = load_and_process_portfolio(ledger)
    /\ df_raw \in Sheets
    /\ price_data = load_stock_prices_from_google_sheets(df_raw, SheetColumns)
    /\ idx = 0
    /\ pct_changes = Unbound
    /\ performance_data = <<>>
    /\ replay_log = [code |-> "", dates |-> <<>>, final_txns |-> <<>>, final |-> <<>>]
    /\ error = ""
    /\ tie_break \in TieBreaks
    /\ message = NoMessage
    /\ first_call = NoCall
    /\ csv = <<>>
    /\ strategies = <<>>
    /\ telegram = <<>>
    /\ export = NoExport

ExportFrame ==
    UNCHANGED <<ledger, stock_transactions, price_data, idx, pct_changes,
                performance_data, replay_log, error, tie_break, first_call, df_raw,
                csv, strategies, telegram>>

\* thread = threading.Thread(target=create_image); thread.daemon = True;
\* thread.start(); the caller goes on to thread.join(timeout=30)
StartExport ==
    /\ pc = "chart"
    /\ export' = [export EXCEPT !.thread = "build"]
    /\ pc' = "join"
    /\ UNCHANGED message
    /\ ExportFrame

\* The export thread runs until it has ended or the interpreter has exited
ThreadRunning == export.thread \in {"build", "render", "write", "flag", "return"} /\ ~export.exited

\* except Exception as e: result['error'] = str(e)
ThreadExcept == [export EXCEPT !.error = "Exception", !.thread = "return"]

\* create_image builds the figure (lines 652-951)
ThreadBuild ==
    /\ ThreadRunning
    /\ export.thread = "build"
    /\ export' \in {[export EXCEPT !.thread = "render"], ThreadExcept}
    /\ UNCHANGED <<pc, message>>
    /\ ExportFrame

\* pio.write_image renders the figure with kaleido and opens portfolio_chart.png
ThreadRender ==
    /\ ThreadRunning
    /\ export.thread = "render"
    /\ export' \in {[export EXCEPT !.thread = "write", !.png = "partial"], ThreadExcept}
    /\ UNCHANGED <<pc, message>>
    /\ ExportFrame

\* pio.write_image writes the bytes of the image and closes the file
ThreadWrite ==
    /\ ThreadRunning
    /\ export.thread = "write"
    /\ export' \in {[export EXCEPT !.thread = "flag", !.png = "complete"], ThreadExcept}
    /\ UNCHANGED <<pc, message>>
    /\ ExportFrame

\* result['success'] = True
ThreadSetSuccess ==
    /\ ThreadRunning
    /\ export.thread = "flag"
    /\ export' = [export EXCEPT !.success = TRUE, !.thread = "return"]
    /\ UNCHANGED <<pc, message>>
    /\ ExportFrame

\* create_image returns: the thread is no longer alive
ThreadEnd ==
    /\ ThreadRunning
    /\ export.thread = "return"
    /\ export' = [export EXCEPT !.thread = "ended"]
    /\ UNCHANGED <<pc, message>>
    /\ ExportFrame

\* thread.join(timeout=30) returns because the thread has ended
JoinReturns ==
    /\ pc = "join"
    /\ export.thread = "ended"
    /\ pc' = "joined"
    /\ UNCHANGED <<export, message>>
    /\ ExportFrame

\* thread.join(timeout=30) returns because 30 seconds have passed
JoinExpires ==
    /\ pc = "join"
    /\ export.thread # "ended"
    /\ export' = [export EXCEPT !.expired = TRUE]
    /\ pc' = "joined"
    /\ UNCHANGED message
    /\ ExportFrame

\* A finished thread returns True whatever it recorded
ExportResult_IgnoresResult(alive, success) == ~alive

\* if thread.is_alive(): return False / elif result['success']: return True /
\* else: return False
ExportResult(alive, success) ==
    IF alive THEN FALSE
    ELSE IF success THEN TRUE
    ELSE FALSE

\* The caller evaluates thread.is_alive() and returns to main
ReturnFromExport ==
    /\ pc = "joined"
    /\ LET alive == export.thread # "ended"
           value == ExportResult(alive, export.success)
       IN  /\ export' = [export EXCEPT !.alive = alive,
                                       !.returned = IF value THEN "True" ELSE "False"]
           /\ pc' = IF value THEN "message" ELSE "failed"
    /\ UNCHANGED message
    /\ ExportFrame

\* main builds the message and calls send_to_telegram("portfolio_chart.png", message)
SendSummary ==
    /\ pc = "message"
    /\ message' = MessageOf(SortedPerformance(<<>>, performance_data, 1))
    /\ export' = [export EXCEPT !.sent = TRUE]
    /\ pc' = "done"
    /\ ExportFrame

\* else: print("Plotly image creation failed in Docker"); main returns
ReportFailure ==
    /\ pc = "failed"
    /\ pc' = "done"
    /\ UNCHANGED <<export, message>>
    /\ ExportFrame

\* main has returned and the interpreter exits: a daemon thread that is
\* still running is stopped where it is
InterpreterExit ==
    /\ pc \in {"done", "error"}
    /\ ~export.exited
    /\ export' = [export EXCEPT !.exited = TRUE,
                                !.thread = IF ThreadRunning THEN "killed" ELSE @]
    /\ UNCHANGED <<pc, message>>
    /\ ExportFrame

NextExport ==
    \/ ProcessStock
    \/ CalcReturn
    \/ StartExport
    \/ ThreadBuild
    \/ ThreadRender
    \/ ThreadWrite
    \/ ThreadSetSuccess
    \/ ThreadEnd
    \/ JoinReturns
    \/ JoinExpires
    \/ ReturnFromExport
    \/ SendSummary
    \/ ReportFailure
    \/ InterpreterExit

SpecExport == InitExport /\ [][NextExport]_vars

\* The thread has ended after writing the whole file and recording success
ExportFinished ==
    /\ export.thread = "ended"
    /\ export.success
    /\ export.png = "complete"
    /\ export.error = ""

C30_NoWorkAfterTimeout ==
    [][(export.returned = "False" /\ export.alive) =>
         /\ export'.png = export.png
         /\ export'.success = export.success
         /\ export'.error = export.error]_vars

====
